---- MODULE Spec2Model ----
(***************************************************************************)
(* Model of CarouselComponent (src/app/components/carousel/                *)
(* carousel.component.ts): the debounced rebuild of the item components,   *)
(* the translation of the engine's active slide into a logical index and   *)
(* the navigation / autoplay calls it forwards to the swiper engine.       *)
(*                                                                         *)
(* Every method of the class is an operator from a controller state (a     *)
(* record of the fields below) to the state it leaves; every action of the *)
(* specification applies one method, timer callback or engine step to the  *)
(* current state.                                                          *)
(***************************************************************************)
EXTENDS Integers, Sequences, FiniteSets, TLC

\* ------------------------------------------------------------------ bounds
MaxItems == 3       \* longest identifier sequence, most original slides
MaxPre == 1         \* most loop duplicates in front of the original slides
MaxPost == 2        \* most loop duplicates behind the original slides
MaxBurst == 3       \* most requests coalesced into one debounce window
MaxNav == 3         \* largest index handed to slideTo (>= MaxItems: out of range)
MaxLeaked == 3      \* untracked host views after which a faulty run is cut

\* JavaScript's undefined, where a number is expected
Undefined == -1

VARIABLES
  ids,            \* @Input ids: [defined, v]; undefined until Angular sets it
  swiper,         \* this.swiper is bound (set by ngAfterViewInit)
  components,     \* this.components: [defined, refs], refs in slot order
  viewContainer,  \* host views currently held by the ViewContainerRef
  isStopped,      \* indexChangeSubject has completed
  key,            \* distinctUntilChanged: the last key let through
  timerId,        \* debounce: a timer is pending
  lastArgs,       \* debounce: a call waits for its trailing invocation
  slides,         \* engine: data-index of each .swiper-slide, in DOM order
  activeIndex,    \* engine: position of the active slide (0-based)
  autoplay,       \* engine: autoplay is running
  received,       \* history: last value a subscriber of indexChange received
  burst,          \* history: requests made since the last rebuild or cancel
  destroyed,      \* history: ngOnDestroy has run
  reqAfterDestroy,\* history: a rebuild was requested after ngOnDestroy
  roots,          \* history: the slots the last rebuild discovered
  leafRejects,    \* environment: the data the item view fails to render
  last            \* history: what the last operation did

vars == << ids, swiper, components, viewContainer, isStopped, key, timerId,
           lastArgs, slides, activeIndex, autoplay, received, burst,
           destroyed, reqAfterDestroy, roots, leafRejects, last >>

\* ------------------------------------------------------------------ inputs
\* The identifier sequences a caller supplies.
IdsUp(n) == [i \in 1..n |-> 10 * i]
IdsDown(n) == [i \in 1..n |-> 10 * (n + 1 - i)]
IdSeqs ==
  {IdsUp(0), IdsUp(MaxItems - 1), IdsUp(MaxItems), IdsDown(MaxItems)}

\* The slides a looping engine renders for n items: the last p items
\* duplicated in front, the n originals, the first q items duplicated behind.
Layout(n, p, q) ==
  [k \in 1..(p + n + q) |->
     IF k <= p THEN n - p + (k - 1)
     ELSE IF k <= p + n THEN k - p - 1
     ELSE k - p - n - 1]
Min2(a, b) == IF a < b THEN a ELSE b
\* no duplicates (loop not yet created), one on each side (a looping engine
\* showing one slide per view), MaxPost behind (several slides per view)
DupShapes == {<<0, 0>>, <<MaxPre, MaxPre>>, <<0, MaxPost>>}
SlideLayouts ==
  {Layout(c[1], c[2][1], c[2][2]) :
     c \in {d \in (0..MaxItems) \X DupShapes :
              d[2][1] <= d[1] /\ d[2][2] <= d[1]}}
Speeds == {Undefined, 0, 300}

\* ------------------------------------------------------- controller state
UndefinedIds == [defined |-> FALSE, v |-> <<>>]
DefinedIds(v) == [defined |-> TRUE, v |-> v]
UndefinedComponents == [defined |-> FALSE, refs |-> <<>>]

\* The current state as one record, and the assignment of a record to the
\* next state.
Cur ==
  [ids |-> ids, swiper |-> swiper, components |-> components,
   viewContainer |-> viewContainer, isStopped |-> isStopped, key |-> key,
   timerId |-> timerId, lastArgs |-> lastArgs, slides |-> slides,
   activeIndex |-> activeIndex, autoplay |-> autoplay, received |-> received,
   burst |-> burst, destroyed |-> destroyed,
   reqAfterDestroy |-> reqAfterDestroy, roots |-> roots,
   leafRejects |-> leafRejects, last |-> last]

Put(s) ==
  /\ ids' = s.ids
  /\ swiper' = s.swiper
  /\ components' = s.components
  /\ viewContainer' = s.viewContainer
  /\ isStopped' = s.isStopped
  /\ key' = s.key
  /\ timerId' = s.timerId
  /\ lastArgs' = s.lastArgs
  /\ slides' = s.slides
  /\ activeIndex' = s.activeIndex
  /\ autoplay' = s.autoplay
  /\ received' = s.received
  /\ burst' = s.burst
  /\ destroyed' = s.destroyed
  /\ reqAfterDestroy' = s.reqAfterDestroy
  /\ roots' = s.roots
  /\ leafRejects' = s.leafRejects
  /\ last' = s.last

\* What an operation is recorded to have done: its name and arguments,
\* whether it threw, the engine calls it issued (in order), the value it
\* delivered on indexChange (Undefined: none), the value delivered last
\* before it, the rebuilds it executed, the burst size it found, the number
\* of components tracked, whether ngOnDestroy had run and whether autoplay
\* was running when it began, and
\* the host views it destroyed: live ones (torn) and ones already destroyed
\* (retorn).
NoCalls == <<>>
Begin(s, name, args) ==
  [s EXCEPT !.last = [op |-> name, args |-> args, fault |-> FALSE,
                      calls |-> NoCalls,
                      out |-> Undefined, prev |-> s.received, rebuilt |-> 0,
                      burstBefore |-> s.burst,
                      tracked |-> Len(s.components.refs),
                      wasDestroyed |-> s.destroyed,
                      wasPlaying |-> s.autoplay,
                      torn |-> 0, retorn |-> 0]]
Throw(s) == [s EXCEPT !.last.fault = TRUE]
EngineCall(s, fn, index, speed) ==
  [s EXCEPT !.last.calls = Append(@, [fn |-> fn, index |-> index, speed |-> speed])]

\* ------------------------------------------------------------ slot binder
\* a[i] of a JavaScript array: undefined outside 0..length-1
ArrayAt(a, i) == IF i + 1 \in DOMAIN a THEN a[i + 1] ELSE Undefined

\* querySelectorAll('.swiper-slide'): every slide element in DOM order, each
\* with the index its data-index attribute encodes (every slide carries a
\* numeric data-index)
\* (variant: only the first slide of each logical index, as a selector
\* excluding the loop duplicates would return)
selectOriginalRoots(s) ==
  LET firsts == {k \in 1..Len(s.slides) :
                   \A j \in 1..(k - 1) : s.slides[j] # s.slides[k]}
      Nth(n) == CHOOSE k \in firsts : Cardinality({j \in firsts : j < k}) = n - 1
  IN [n \in 1..Cardinality(firsts) |->
        [pos |-> Nth(n), index |-> s.slides[Nth(n)]]]

selectItemComponentRoots(s) ==
  [k \in 1..Len(s.slides) |-> [pos |-> k, index |-> s.slides[k]]]

\* instance.iterationId = data; changeDetectorRef.detectChanges()
updateItemComponent(component, data) ==
  [component EXCEPT !.iterationId = data]

\* viewContainer.createComponent: a new host view, inserted in the container
NewView(vc) ==
  CHOOSE n \in 1..(Cardinality(vc) + 1) :
    n \notin vc /\ \A m \in 1..(n - 1) : m \in vc

\* The view is in the container before updateItemComponent renders it; a
\* render that throws leaves it there and returns no reference.
createItemComponent(s, data) ==
  LET view == NewView(s.viewContainer)
      component ==
        updateItemComponent(
          [view |-> view, iterationId |-> Undefined, host |-> Undefined], data)
      created == [s EXCEPT !.viewContainer = @ \cup {view}]
  IN [s |-> IF data \in s.leafRejects THEN Throw(created) ELSE created,
      component |-> component]

\* (variant: the identifier is looked up at the slot's position instead of
\* the index the slot encodes)
createItemComponentForRootByPosition(s, root) ==
  IF ~s.ids.defined
  THEN [s |-> Throw(s),
        component |-> [view |-> Undefined, iterationId |-> Undefined,
                       host |-> Undefined]]
  ELSE LET made == createItemComponent(s, ArrayAt(s.ids.v, root.pos - 1))
       IN [s |-> made.s,
           component |-> [made.component EXCEPT !.host = root.pos]]

\* (variant: a slot whose index has no identifier raises)
createItemComponentForRootStrict(s, root) ==
  IF ~s.ids.defined \/ root.index >= Len(s.ids.v)
  THEN [s |-> Throw(s),
        component |-> [view |-> Undefined, iterationId |-> Undefined,
                       host |-> Undefined]]
  ELSE LET made == createItemComponent(s, s.ids.v[root.index + 1])
       IN [s |-> made.s,
           component |-> [made.component EXCEPT !.host = root.pos]]

\* Reads the index encoded on root, creates a component for this.ids[index]
\* and appends its nodes to root.  Reading an element of this.ids throws a
\* TypeError while ids is undefined; an index past the end reads undefined.
createItemComponentForRoot(s, root) ==
  IF ~s.ids.defined
  THEN [s |-> Throw(s),
        component |-> [view |-> Undefined, iterationId |-> Undefined,
                       host |-> Undefined]]
  ELSE LET made == createItemComponent(s, ArrayAt(s.ids.v, root.index))
       IN [s |-> made.s,
           component |-> [made.component EXCEPT !.host = root.pos]]

\* lodash map over the roots; a throw leaves the loop
RECURSIVE mapRoots(_, _, _, _)
mapRoots(s, rs, k, acc) ==
  IF k > Len(rs) THEN [s |-> s, refs |-> acc]
  ELSE LET made == createItemComponentForRoot(s, rs[k])
       IN IF made.s.last.fault THEN [s |-> made.s, refs |-> acc]
          ELSE mapRoots(made.s, rs, k + 1, Append(acc, made.component))

initialize(s) ==
  LET rs == selectItemComponentRoots(s)
      m == mapRoots([s EXCEPT !.roots = rs], rs, 1, <<>>)
  IN IF m.s.last.fault THEN m.s
     ELSE [m.s EXCEPT !.components = [defined |-> TRUE, refs |-> m.refs]]

\* viewContainer.remove(viewContainer.indexOf(hostView)); component.destroy()
destroyItemComponent(s, component) ==
  IF component.view \in s.viewContainer
  THEN [s EXCEPT !.viewContainer = @ \ {component.view}, !.last.torn = @ + 1]
  ELSE [s EXCEPT !.last.retorn = @ + 1]

\* lodash forEach over this.components (no iteration while it is undefined)
RECURSIVE forEachDestroy(_, _, _)
forEachDestroy(s, refs, k) ==
  IF k > Len(refs) THEN s
  ELSE forEachDestroy(destroyItemComponent(s, refs[k]), refs, k + 1)

\* Variant: the references are kept after their components are destroyed.
destroyKeepsRefs(s) == forEachDestroy(s, s.components.refs, 1)

destroy(s) ==
  [forEachDestroy(s, s.components.refs, 1)
     EXCEPT !.components = UndefinedComponents]

\* this.changeDetector.detectChanges(): renders the host, changes no field
\* of the component
detectChanges(s) == s

\* function reinitializeImpl: destroy, initialize, detectChanges
\* Variant: the rebuild pipes the subject anew, which forgets the value
\* delivered last.
reinitializeImplRepipes(s) ==
  LET d == destroy([s EXCEPT !.last.rebuilt = @ + 1, !.key = Undefined])
      i == initialize(d)
  IN IF i.last.fault THEN i ELSE detectChanges(i)

reinitializeImpl(s) ==
  LET d == destroy([s EXCEPT !.last.rebuilt = @ + 1])
      i == initialize(d)
  IN IF i.last.fault THEN i ELSE detectChanges(i)

\* --------------------------------------------------- lodash debounce(impl)
\* wait is 0, leading is false, trailing is true.
\* (variant: leading edge, the first call of a window invokes at once)
reinitializeLeading(s) ==
  LET r == [s EXCEPT !.timerId = TRUE, !.burst = @ + 1,
                     !.reqAfterDestroy = @ \/ s.destroyed]
  IN IF s.timerId THEN [r EXCEPT !.lastArgs = TRUE] ELSE reinitializeImpl(r)

\* debounced(): remembers the call and starts the timer unless one runs
reinitialize(s) ==
  [s EXCEPT !.lastArgs = TRUE, !.timerId = TRUE, !.burst = @ + 1,
            !.reqAfterDestroy = @ \/ s.destroyed]

\* debounced.cancel(): clears the timer and forgets the call
cancel(s) ==
  [s EXCEPT !.timerId = FALSE, !.lastArgs = FALSE, !.burst = 0]

\* timerExpired -> trailingEdge: clears the timer and, if a call waits,
\* invokes the implementation once
\* Variant: a debounce without a trailing edge; the timer's firing only
\* closes the window.
timerExpiredNoTrailing(s) ==
  [s EXCEPT !.timerId = FALSE, !.lastArgs = FALSE, !.burst = 0]

timerExpired(s) ==
  LET t == [s EXCEPT !.timerId = FALSE]
  IN IF t.lastArgs
     THEN reinitializeImpl([t EXCEPT !.lastArgs = FALSE, !.burst = 0])
     ELSE t

\* ------------------------------------------------------- index translator
\* (variant: the subject exposed without the operator)
passThrough(s, value) ==
  [s EXCEPT !.key = value, !.received = value, !.last.out = value]

\* pipe(distinctUntilChanged()): lets a value through unless it equals the
\* last one let through; the value reaches the subscriber
distinctUntilChanged(s, value) ==
  IF s.key # Undefined /\ s.key = value THEN s
  ELSE [s EXCEPT !.key = value, !.received = value, !.last.out = value]

\* Subject.next: nothing once the subject is stopped
next(s, value) ==
  IF s.isStopped THEN s ELSE distinctUntilChanged(s, value)

\* Subject.complete
complete(s) == [s EXCEPT !.isStopped = TRUE]

\* (variant: the raw position of the active slide is published)
indexChangedRaw(s) ==
  IF ~s.swiper THEN Throw(s)
  ELSE LET index == ArrayAt(s.slides, s.activeIndex)
       IN IF index = Undefined THEN Throw(s) ELSE next(s, s.activeIndex)

\* Destructuring this.swiper throws while it is undefined, and so does
\* element.dataset when slides has no element at activeIndex.
indexChanged(s) ==
  IF ~s.swiper THEN Throw(s)
  ELSE LET index == ArrayAt(s.slides, s.activeIndex)
       IN IF index = Undefined THEN Throw(s) ELSE next(s, index)

\* -------------------------------------------------- navigation / autoplay
\* swiper.autoplay.stop(), swiper.autoplay.start(), swiper.slideToLoop
autoplayStop(s) ==
  EngineCall([s EXCEPT !.autoplay = FALSE], "autoplay.stop", Undefined, Undefined)
autoplayStart(s) ==
  EngineCall([s EXCEPT !.autoplay = TRUE], "autoplay.start", Undefined, Undefined)
slideToLoop(s, index, speed) == EngineCall(s, "slideToLoop", index, speed)

RECURSIVE slideTo(_, _, _)
RECURSIVE stopAutoplay(_, _)
\* (variant: navigation is issued before autoplay is stopped)
slideToThenStop(s, index, speed) ==
  IF ~s.swiper THEN Throw(s)
  ELSE stopAutoplay(slideToLoop(s, index, speed), FALSE)

stopAutoplay(s, reset) ==
  LET a == IF reset THEN slideTo(s, 0, 0) ELSE s
  IN IF a.last.fault THEN a
     ELSE IF ~a.swiper THEN Throw(a)
     ELSE autoplayStop(a)

slideTo(s, index, speed) ==
  LET a == stopAutoplay(s, FALSE)
  IN IF a.last.fault THEN a ELSE slideToLoop(a, index, speed)

\* Variant: autoplay is started before the carousel is reset.
startAutoplayThenReset(s, reset) ==
  IF ~s.swiper THEN Throw(s)
  ELSE IF reset THEN slideTo(autoplayStart(s), 0, 0) ELSE autoplayStart(s)

startAutoplay(s, reset) ==
  LET a == IF reset THEN slideTo(s, 0, 0) ELSE s
  IN IF a.last.fault THEN a
     ELSE IF ~a.swiper THEN Throw(a)
     ELSE autoplayStart(a)

\* -------------------------------------------------------- lifecycle hooks
ngAfterViewInit(s) == reinitialize([s EXCEPT !.swiper = TRUE])

\* changes carries 'ids' when Angular has replaced the input
\* Variant: every change of ids requests a rebuild, engine bound or not.
ngOnChangesUngated(s, hasIds) ==
  IF hasIds THEN reinitialize(s) ELSE s

ngOnChanges(s, hasIds) ==
  IF hasIds /\ s.swiper THEN reinitialize(s) ELSE s

\* (variants: teardown that leaves the subject open, and teardown that
\* leaves the debounce timer running)
ngOnDestroyNoComplete(s) ==
  destroy(cancel([s EXCEPT !.destroyed = TRUE, !.reqAfterDestroy = FALSE]))
ngOnDestroyNoCancel(s) ==
  destroy(complete([s EXCEPT !.destroyed = TRUE,
                             !.reqAfterDestroy = FALSE]))

ngOnDestroy(s) ==
  destroy(cancel(complete([s EXCEPT !.destroyed = TRUE,
                                    !.reqAfterDestroy = FALSE])))

\* ----------------------------------------------------------------- actions
\* The state after construction, with an item view that renders the data of
\* Rejects only by throwing.
InitWith(Rejects) ==
  /\ leafRejects = Rejects
  /\ ids = UndefinedIds
  /\ swiper = FALSE
  /\ components = UndefinedComponents
  /\ viewContainer = {}
  /\ isStopped = FALSE
  /\ key = Undefined
  /\ timerId = FALSE
  /\ lastArgs = FALSE
  /\ slides \in SlideLayouts
  /\ activeIndex = 0
  /\ autoplay = TRUE
  /\ received = Undefined
  /\ burst = 0
  /\ destroyed = FALSE
  /\ reqAfterDestroy = FALSE
  /\ roots = <<>>
  /\ last = [op |-> "constructor", args |-> <<>>, fault |-> FALSE,
             calls |-> NoCalls,
             out |-> Undefined, prev |-> Undefined, rebuilt |-> 0,
             burstBefore |-> 0, tracked |-> 0, wasDestroyed |-> FALSE,
             wasPlaying |-> TRUE,
             torn |-> 0, retorn |-> 0]

\* The item view renders every value.
Init == InitWith({})

\* Angular calls ngAfterViewInit once, on a live component.
AfterViewInit ==
  /\ ~swiper /\ ~destroyed
  /\ Put(ngAfterViewInit(Begin(Cur, "ngAfterViewInit", <<>>)))

\* Angular replaces the input by a sequence of V and calls ngOnChanges with
\* 'ids' in changes.
OnChangesIds(V) ==
  /\ swiper => burst < MaxBurst
  /\ \E v \in V :
       Put(ngOnChanges(Begin([Cur EXCEPT !.ids = DefinedIds(v)],
                             "ngOnChanges(ids)", <<>>), TRUE))

\* ngOnChanges for a change that does not carry 'ids'.
OnChangesOther ==
  /\ Put(ngOnChanges(Begin(Cur, "ngOnChanges(other)", <<>>), FALSE))

OnDestroy ==
  /\ Put(ngOnDestroy(Begin(Cur, "ngOnDestroy", <<>>)))

\* The debounce timer fires.
TimerFires ==
  /\ timerId
  /\ Put(timerExpired(Begin(Cur, "timerExpired", <<>>)))

\* The engine reports an active-slide change to the component.
IndexChanged ==
  /\ Put(indexChanged(Begin(Cur, "indexChanged", <<>>)))

SlideTo ==
  /\ \E i \in 0..MaxNav, speed \in Speeds :
       Put(slideTo(Begin(Cur, "slideTo", <<i, speed>>), i, speed))

Flag(b) == IF b THEN 1 ELSE 0

StartAutoplay ==
  /\ \E reset \in BOOLEAN :
       Put(startAutoplay(Begin(Cur, "startAutoplay", <<Flag(reset)>>), reset))

StopAutoplay ==
  /\ \E reset \in BOOLEAN :
       Put(stopAutoplay(Begin(Cur, "stopAutoplay", <<Flag(reset)>>), reset))

\* The engine makes another slide the active one.
EngineMove ==
  \E p \in 0..(Len(slides) - 1) :
    /\ p # activeIndex
    /\ Put([Begin(Cur, "engine", <<>>) EXCEPT !.activeIndex = p])

\* The engine re-renders its slides (items added or removed, loop
\* duplicates re-created); the active position stays inside them.
EngineUpdate ==
  \E l \in SlideLayouts :
    /\ l # slides
    /\ Put([Begin(Cur, "engine", <<>>) EXCEPT
              !.slides = l,
              !.activeIndex = IF Len(l) = 0 THEN 0 ELSE Min2(@, Len(l) - 1)])

\* The whole component: every hook, method, timer and engine step.  The
\* specifications below it keep the lifecycle hooks and the timer and add
\* the steps of one concern each; the steps they leave out write none of
\* the fields that concern reads.
Next ==
  \/ AfterViewInit
  \/ OnChangesIds(IdSeqs)
  \/ OnChangesOther
  \/ OnDestroy
  \/ TimerFires
  \/ IndexChanged
  \/ SlideTo
  \/ StartAutoplay
  \/ StopAutoplay
  \/ EngineMove
  \/ EngineUpdate

\* The reconciliation scheduler and the slot binder: the lifecycle hooks,
\* the debounce timer and the engine re-rendering its slides.
NextRebuild ==
  \/ AfterViewInit
  \/ OnChangesIds(IdSeqs)
  \/ OnChangesOther
  \/ OnDestroy
  \/ TimerFires
  \/ EngineUpdate

Spec == Init /\ [][Next]_vars

SpecRebuild == Init /\ [][NextRebuild]_vars

\* The same, with the event loop running the debounce timer.  TimerFires
\* is enabled exactly when timerId is set, and it is the step that clears
\* timerId on a component ngOnDestroy does not tear down in that step; the
\* fairness is stated on that footprint of it: an armed timer fires.
TimerFired == timerId /\ timerId' = FALSE /\ destroyed' = destroyed
SpecRebuildFair == SpecRebuild /\ WF_<<timerId, destroyed>>(TimerFired)

\* The rebuilds with an item view whose render throws for the second
\* identifier of the full sequence.  A failed rebuild leaves host views that
\* nothing tracks; the timer is followed until MaxLeaked of them are live.
LeafFaults == {{IdsUp(MaxItems)[2]}}
InitLeafFault == \E Rejects \in LeafFaults : InitWith(Rejects)
Leaked(s) ==
  s.viewContainer \ {s.components.refs[k].view : k \in 1..Len(s.components.refs)}
TimerFiresFewLeaked ==
  /\ Cardinality(Leaked(Cur)) < MaxLeaked
  /\ TimerFires
NextLeafFault ==
  \/ AfterViewInit
  \/ OnChangesIds({IdsUp(MaxItems), IdsDown(MaxItems)})
  \/ OnDestroy
  \/ TimerFiresFewLeaked
  \/ EngineUpdate
SpecLeafFault == InitLeafFault /\ [][NextLeafFault]_vars

\* The index translator, with rebuilds of one identifier sequence.
NextIndex ==
  \/ AfterViewInit
  \/ OnChangesIds({IdsUp(MaxItems)})
  \/ OnDestroy
  \/ TimerFires
  \/ IndexChanged
  \/ EngineMove
  \/ EngineUpdate

SpecIndex == Init /\ [][NextIndex]_vars

\* Navigation and autoplay, with rebuilds of one identifier sequence.
NextNav ==
  \/ AfterViewInit
  \/ OnChangesIds({IdsUp(MaxItems)})
  \/ OnDestroy
  \/ TimerFires
  \/ SlideTo
  \/ StartAutoplay
  \/ StopAutoplay

SpecNav == Init /\ [][NextNav]_vars

\* The index translator and the navigation together, with rebuilds of one
\* identifier sequence.
NextFrame ==
  \/ AfterViewInit
  \/ OnChangesIds({IdsUp(MaxItems)})
  \/ OnDestroy
  \/ TimerFires
  \/ IndexChanged
  \/ EngineMove
  \/ SlideTo
  \/ StartAutoplay
  \/ StopAutoplay

SpecFrame == Init /\ [][NextFrame]_vars

\* ------------------------------------------------------------------ claims
\* The last operation was a timer firing whose rebuild ran to its end.
RebuildDone ==
  last.op = "timerExpired" /\ last.rebuilt = 1 /\ ~last.fault
\* The last operation requested a rebuild from the debounced function.
Requested ==
  \/ last.op = "ngAfterViewInit"
  \/ last.op = "ngOnChanges(ids)" /\ swiper
\* The data injected into the tracked components, in slot order.
Injected == [k \in 1..Len(components.refs) |-> components.refs[k].iterationId]

\* C1: a burst of k >= 1 requests made before the debounce timer fires is
\* served by exactly one rebuild, run by the timer after the last request
\* of the burst: a request never runs a rebuild itself, a timer is pending
\* exactly while requests are unserved, and the timer's firing runs one
\* rebuild that serves the whole burst.
C1_Coalescing ==
  /\ timerId <=> burst >= 1
  /\ Requested =>
       last.rebuilt = 0 /\ timerId /\ burst = last.burstBefore + 1
  /\ last.op = "timerExpired" =>
       last.rebuilt = 1 /\ last.burstBefore >= 1 /\ burst = 0 /\ ~timerId
  /\ last.rebuilt >= 1 => last.op = "timerExpired"
C1_Witness ==
  last.op = "timerExpired" /\ last.rebuilt = 1 /\ last.burstBefore >= 2

\* C2: right after a rebuild that completes, the tracked components are in
\* one-to-one correspondence with the slides it discovered: the k-th
\* component is hosted by the k-th slide, loop duplicates included, every
\* component has a host view of its own and the container holds exactly
\* those views.
C2_Bijection ==
  RebuildDone =>
    /\ components.defined
    /\ Len(roots) = Len(slides)
    /\ Len(components.refs) = Len(slides)
    /\ \A k \in 1..Len(slides) :
         roots[k].index = slides[k] /\ components.refs[k].host = k
    /\ \A j, k \in 1..Len(slides) :
         j # k => components.refs[j].view # components.refs[k].view
    /\ viewContainer = {components.refs[k].view : k \in 1..Len(slides)}
C2_Witness ==
  /\ RebuildDone
  /\ slides = Layout(MaxItems, 0, MaxPost)
  /\ Len(components.refs) = MaxItems + MaxPost

\* C3: right after a rebuild that completes, the component of every slide
\* whose encoded index j lies inside ids holds ids[j], for the ids current
\* when the rebuild ran.
C3_InjectedData ==
  RebuildDone =>
    /\ Len(components.refs) = Len(slides)
    /\ \A k \in 1..Len(slides) :
         slides[k] < Len(ids.v) =>
           components.refs[k].iterationId = ids.v[slides[k] + 1]
C3_Witness ==
  /\ RebuildDone
  /\ last.burstBefore >= 2
  /\ ids.v = <<10, 20, 30>>
  /\ slides = <<0, 1, 2, 0, 1>>
  /\ Injected = <<10, 20, 30, 10, 20>>

\* C4: a subscriber of indexChange never receives the value it received
\* last: whatever an operation delivers differs from the value delivered
\* before it.
C4_DistinctUntilChanged ==
  last.out # Undefined => last.out # last.prev
C4_Witness ==
  /\ last.op = "indexChanged" /\ ~last.fault /\ ~isStopped
  /\ last.out = Undefined
  /\ last.prev = slides[activeIndex + 1]

\* C5 as stated: every value indexChanged delivers is the index encoded on
\* the active slide, and every indexChanged whose translated index differs
\* from the last delivered value delivers it.
C5_AlwaysEmits ==
  (last.op = "indexChanged" /\ ~last.fault) =>
    /\ last.out # Undefined => last.out = slides[activeIndex + 1]
    /\ slides[activeIndex + 1] # last.prev => last.out = slides[activeIndex + 1]
\* C5 as amended: the same, where the second part is for indexChanged calls
\* made before ngOnDestroy.
C5_IndexTranslation ==
  (last.op = "indexChanged" /\ ~last.fault) =>
    /\ last.out # Undefined => last.out = slides[activeIndex + 1]
    /\ (slides[activeIndex + 1] # last.prev /\ ~destroyed) =>
         last.out = slides[activeIndex + 1]
C5_Witness ==
  /\ last.op = "indexChanged" /\ ~last.fault
  /\ slides = <<0, 1, 2, 0, 1>>
  /\ activeIndex = 4
  /\ last.prev = 0
  /\ last.out = 1

\* C6: with the engine bound, slideTo(i, speed) issues autoplay.stop() and
\* then slideToLoop(i, speed), and nothing else, and leaves autoplay
\* stopped; without an engine it throws before any call.
C6_StopBeforeNavigate ==
  last.op = "slideTo" =>
    IF swiper
    THEN /\ ~last.fault
         /\ last.calls =
              << [fn |-> "autoplay.stop", index |-> Undefined,
                  speed |-> Undefined],
                 [fn |-> "slideToLoop", index |-> last.args[1],
                  speed |-> last.args[2]] >>
         /\ ~autoplay
    ELSE last.fault /\ last.calls = NoCalls
C6_Witness ==
  /\ last.op = "slideTo" /\ ~last.fault
  /\ last.args[1] >= MaxItems
  /\ Len(last.calls) = 2
  /\ ~autoplay

\* C7: after ngOnDestroy the subject is completed and no operation delivers
\* a value on indexChange.
C7_NoEmissionAfterDestroy ==
  destroyed => isStopped /\ last.out = Undefined /\ received = last.prev
C7_Witness ==
  /\ destroyed
  /\ last.op = "indexChanged" /\ ~last.fault
  /\ slides[activeIndex + 1] # received

\* C8: a rebuild pending when ngOnDestroy runs never executes: after
\* ngOnDestroy no timer is pending and no component exists until a new
\* request is made, and a rebuild that runs after ngOnDestroy serves a
\* request made after it.
C8_PendingRebuildCancelled ==
  /\ (destroyed /\ last.rebuilt >= 1) => reqAfterDestroy
  /\ (destroyed /\ ~reqAfterDestroy) =>
       ~timerId /\ ~lastArgs /\ ~components.defined /\ viewContainer = {}
C8_Witness ==
  /\ last.op = "ngOnDestroy"
  /\ last.burstBefore >= 1
  /\ roots = <<>> /\ slides # <<>>

\* C9 as stated: once ngOnDestroy has run no rebuild begins and no
\* component is created.
C9_DestroyedIsTerminal ==
  destroyed =>
    last.rebuilt = 0 /\ ~components.defined /\ viewContainer = {}

C11_FirstPopulationGating ==
  /\ ~swiper =>
       /\ ~timerId /\ ~lastArgs /\ burst = 0
       /\ ~components.defined /\ viewContainer = {}
       /\ last.rebuilt = 0
  /\ last.op = "ngAfterViewInit" =>
       /\ last.burstBefore = 0 /\ burst = 1
       /\ timerId /\ lastArgs
  /\ (last.op = "ngOnChanges(ids)" /\ swiper) =>
       /\ burst = last.burstBefore + 1
       /\ timerId /\ lastArgs
  /\ last.op = "ngOnChanges(other)" =>
       /\ burst = last.burstBefore
       /\ last.rebuilt = 0
C11_Witness ==
  /\ last.op = "ngOnChanges(ids)"
  /\ ~swiper
  /\ ids.defined /\ Len(ids.v) = MaxItems
  /\ Len(slides) > 0

\* C12: with the engine bound, startAutoplay leaves autoplay running and
\* stopAutoplay leaves it stopped, whatever it was before; with reset the
\* engine is first told to go to item 0 at speed 0 (after the stop that
\* slideTo makes) and then to start or stop, and without reset it is told
\* only to start or stop.  Before the engine is bound both throw and tell
\* the engine nothing.
ResetCalls ==
  << [fn |-> "autoplay.stop", index |-> Undefined, speed |-> Undefined],
     [fn |-> "slideToLoop", index |-> 0, speed |-> 0] >>
C12_AutoplayToggles ==
  /\ (last.op = "startAutoplay" /\ swiper) =>
       /\ ~last.fault
       /\ autoplay
       /\ last.calls =
            (IF last.args[1] = 1 THEN ResetCalls ELSE NoCalls)
              \o << [fn |-> "autoplay.start", index |-> Undefined,
                     speed |-> Undefined] >>
  /\ (last.op = "stopAutoplay" /\ swiper) =>
       /\ ~last.fault
       /\ ~autoplay
       /\ last.calls =
            (IF last.args[1] = 1 THEN ResetCalls ELSE NoCalls)
              \o << [fn |-> "autoplay.stop", index |-> Undefined,
                     speed |-> Undefined] >>
  /\ (last.op \in {"startAutoplay", "stopAutoplay"} /\ ~swiper) =>
       /\ last.fault
       /\ last.calls = NoCalls
       /\ autoplay = last.wasPlaying
C12_Witness ==
  /\ last.op = "startAutoplay" /\ last.args[1] = 1
  /\ last.wasPlaying
  /\ Len(last.calls) = 3
  /\ autoplay

\* The host views of the tracked components.
Tracked == {components.refs[k].view : k \in 1..Len(components.refs)}
\* The live host views are the tracked ones, one per tracked component, and
\* a rebuild or ngOnDestroy destroys every component it found tracked, once.
LiveAreTracked ==
  /\ viewContainer = Tracked
  /\ Cardinality(Tracked) = Len(components.refs)
  /\ last.retorn = 0
  /\ (last.op = "ngOnDestroy" \/ last.rebuilt = 1) => last.torn = last.tracked

\* C13: every component created is destroyed once, by the next rebuild
\* before it creates any or by ngOnDestroy; between operations the live
\* host views are the tracked ones; once ngOnDestroy has run no host view
\* is live.
C13_BindingLifecycle ==
  /\ LiveAreTracked
  /\ destroyed => viewContainer = {}

\* C14: when a rebuild fails at a slot after it has bound earlier slots,
\* the host views it created are tracked, so none is live and untracked.
C14_PartialBindTracked ==
  (last.op = "timerExpired" /\ last.fault /\ Cardinality(viewContainer) >= 2)
    => viewContainer \subseteq Tracked

\* The last operation was a completed rebuild that gave every slide's
\* component the identifier ids now holds for the slide's data-index.
Resynchronized ==
  /\ RebuildDone
  /\ Len(components.refs) = Len(slides)
  /\ \A k \in 1..Len(slides) :
       components.refs[k].iterationId =
         IF slides[k] >= Len(ids.v) THEN Undefined ELSE ids.v[slides[k] + 1]

\* C15: with the timer running, a replacement of ids on a bound, live
\* component leads to ngOnDestroy or to a completed rebuild with the
\* identifiers held at that time.
C15_EventualResync ==
  (last.op = "ngOnChanges(ids)" /\ swiper /\ ~destroyed)
    ~> (destroyed \/ Resynchronized)
C15_Witness ==
  /\ Resynchronized
  /\ ~destroyed
  /\ last.burstBefore >= 2
  /\ ids.v = IdsDown(MaxItems)
  /\ Len(slides) > MaxItems

\* C17: no operation destroys a host view that is already destroyed;
\* ngOnDestroy never throws and destroys exactly the components it found
\* tracked, so none when it runs again or before any rebuild; a rebuild that
\* finds none tracked destroys none, and a rebuild throws only in binding
\* (ids undefined with a slide present), not in its destroy step.  The
\* slides the engine holds by then play no part.
C17_DoubleTeardownNoOp ==
  /\ last.retorn = 0
  /\ last.op = "ngOnDestroy" =>
       /\ ~last.fault
       /\ last.torn = last.tracked
       /\ ~components.defined /\ viewContainer = {}
  /\ last.rebuilt = 1 =>
       /\ last.torn = last.tracked
       /\ last.fault => (~ids.defined /\ Len(slides) > 0)
C17_Witness ==
  /\ last.op = "ngOnDestroy"
  /\ last.wasDestroyed
  /\ last.tracked = 0 /\ last.torn = 0
  /\ roots # <<>> /\ Len(slides) = 0

\* C18: a step that is not indexChanged (a rebuild among them) delivers
\* nothing on indexChange and leaves the value delivered last and the
\* memory of distinctUntilChanged as they were, so an indexChanged that
\* reports the value delivered last is suppressed, rebuild or not; and
\* indexChanged, slideTo, startAutoplay and stopAutoplay leave ids, the
\* tracked components, the live host views and the debounce as they were.
C18_Frame ==
  /\ last'.op # "indexChanged" =>
       /\ last'.out = Undefined
       /\ received' = received
       /\ key' = key
  /\ last'.op = "indexChanged" =>
       /\ received' # received => last'.out = received'
       /\ (/\ ~last'.fault
           /\ received # Undefined
           /\ slides[activeIndex + 1] = received) =>
            (received' = received /\ last'.out = Undefined)
  /\ last'.op \in {"indexChanged", "slideTo", "startAutoplay", "stopAutoplay"} =>
       /\ ids' = ids
       /\ components' = components
       /\ viewContainer' = viewContainer
       /\ timerId' = timerId /\ lastArgs' = lastArgs
       /\ last'.rebuilt = 0 /\ last'.torn = 0
C18_ReconciliationDoesNotPublish == [][C18_Frame]_vars
C18_Witness ==
  /\ RebuildDone
  /\ last.torn > 0
  /\ ~isStopped
  /\ received # Undefined
  /\ activeIndex < Len(slides)
  /\ slides[activeIndex + 1] = received

\* C19: no indexChanged call and no rebuild ends by throwing out of the
\* component.
C19_FaultsAbsorbed ==
  last.op \in {"indexChanged", "timerExpired"} => ~last.fault
====
